---- MODULE Spec2Model ----
(***************************************************************************)
(* Model of docker/bar-server: bar_server_wrapper.py (the module body that *)
(* wires BarQueryConstructor into example_server, attaches /health and,    *)
(* when run directly, starts uvicorn) and health_endpoint.py.              *)
(***************************************************************************)
EXTENDS Integers, Sequences, FiniteSets, TLC

\* ---------------------------------------------------------------- bounds
MaxLen == 3          \* longest PORT string placed in the environment
MaxRequests == 2     \* requests served in one run

\* ------------------------------------------------------- program constants
DefaultPort == 8001

\* ------------------------------------------------------------ Python values
PyNone == [t |-> "none"]
PyStr(s) == [t |-> "str", s |-> s]
PyIntV(n) == [t |-> "int", i |-> n]

Alphabet == {"0", "9", "a", " ", "-", "_"}
Digits == <<"0", "1", "2", "3", "4", "5", "6", "7", "8", "9">>
IsDigit(c) == \E k \in 1..10 : Digits[k] = c
DigitVal(c) == (CHOOSE k \in 1..10 : Digits[k] = c) - 1

RECURSIVE StringsUpTo(_)
StringsUpTo(n) ==
    IF n = 0 THEN {<<>>}
    ELSE LET S == StringsUpTo(n - 1)
         IN  S \cup {Append(s, c) : s \in {x \in S : Len(x) = n - 1}, c \in Alphabet}

\* str.strip() as int() applies it to its argument
RECURSIVE LStrip(_)
LStrip(s) == IF s # <<>> /\ Head(s) = " " THEN LStrip(Tail(s)) ELSE s
RECURSIVE RStrip(_)
RStrip(s) ==
    IF s # <<>> /\ s[Len(s)] = " " THEN RStrip(SubSeq(s, 1, Len(s) - 1)) ELSE s
Strip(s) == RStrip(LStrip(s))

RECURSIVE DecimalValue(_, _)
DecimalValue(s, acc) ==
    IF s = <<>> THEN acc
    ELSE IF Head(s) = "_" THEN DecimalValue(Tail(s), acc)
    ELSE DecimalValue(Tail(s), 10 * acc + DigitVal(Head(s)))

\* the digit part int() accepts in base 10: digits, single "_" between digits
ValidDigits(b) ==
    /\ b # <<>>
    /\ IsDigit(b[1])
    /\ IsDigit(b[Len(b)])
    /\ \A k \in 1..Len(b) : IsDigit(b[k]) \/ b[k] = "_"
    /\ \A k \in 1..(Len(b) - 1) : ~(b[k] = "_" /\ b[k + 1] = "_")

\* a mutant of int(): an unparsable string yields 0 instead of ValueError
intMut(x) ==
    IF x.t = "int" THEN [ok |-> TRUE, i |-> x.i]
    ELSE LET st == Strip(x.s)
             signed == st # <<>> /\ Head(st) \in {"-", "+"}
             body == IF signed THEN Tail(st) ELSE st
             mag == DecimalValue(body, 0)
         IN  IF ValidDigits(body)
             THEN [ok |-> TRUE, i |-> IF signed /\ Head(st) = "-" THEN 0 - mag ELSE mag]
             ELSE [ok |-> TRUE, i |-> 0]

\* int(x): x is an int (the default) or a str (the environment's value)
int(x) ==
    IF x.t = "int" THEN [ok |-> TRUE, i |-> x.i]
    ELSE LET st == Strip(x.s)
             signed == st # <<>> /\ Head(st) \in {"-", "+"}
             body == IF signed THEN Tail(st) ELSE st
             mag == DecimalValue(body, 0)
         IN  IF ValidDigits(body)
             THEN [ok |-> TRUE, i |-> IF signed /\ Head(st) = "-" THEN 0 - mag ELSE mag]
             ELSE [ok |-> FALSE]

\* a mutant of os.getenv: the fallback is off by one
os_getenvMut(env, key, default) ==
    IF env[key] = PyNone THEN PyIntV(default.i - 1) ELSE env[key]

\* os.getenv(key, default)
os_getenv(env, key, default) ==
    IF env[key] = PyNone THEN default ELSE env[key]

\* load_dotenv(): values of the .env file fill in variables that are not set
load_dotenv(env, file) ==
    [k \in DOMAIN env |-> IF env[k] = PyNone THEN file[k] ELSE env[k]]

\* ------------------------------------------------------------------ objects
NoObject == <<"None", 0>>
DefaultQC == <<"example_server.default_query_constructor", 0>>
BarQueryConstructor(n) == <<"BarQueryConstructor", n>>
BaseAppObj == "example_server.app"

\* ------------------------------------------------------------------- routes
Route(m, p, e) == [method |-> m, path |-> p, endpoint |-> e]
QueryRoute == Route("POST", "/query", "base_query")
BaseHealthRoute == Route("GET", "/health", "base_health")

\* route tables example_server may have built for its app
BaseRouteTables ==
    { <<QueryRoute>>,
      <<QueryRoute, BaseHealthRoute>>,
      <<BaseHealthRoute, QueryRoute>> }

\* a mutant of the registration: the new route goes in front of the table
add_routeMut(table, r) == <<r>> \o table

\* app.get(path)(fn): the framework appends the route to the table
add_route(table, r) == Append(table, r)

\* the framework serves a request with the first route that matches
RECURSIVE Resolve(_, _, _)
Resolve(table, m, p) ==
    IF table = <<>> THEN "not_found"
    ELSE IF Head(table).method = m /\ Head(table).path = p THEN Head(table).endpoint
    ELSE Resolve(Tail(table), m, p)

\* a mutant of the health handler: another status word
healthMut == [status |-> "ok", service |-> "bar-server"]

\* async def health()
health == [status |-> "healthy", service |-> "bar-server"]

\* what an endpoint answers; the inherited query route uses the active slot
Respond(endpoint, slot) ==
    CASE endpoint = "health" -> health
      [] endpoint = "base_health" -> [status |-> "base", service |-> "example"]
      [] endpoint = "base_query" -> [status |-> "answer", service |-> slot[1]]
      [] OTHER -> [status |-> "404", service |-> "none"]

RequestLines ==
    { <<"GET", "/health">>, <<"POST", "/query">>, <<"GET", "/missing">> }

\* a mutant of the call: bound to loopback only
uvicorn_runMut(a, p) == [app |-> a, host |-> "127.0.0.1", port |-> p]

\* uvicorn.run(app, host="0.0.0.0", port=port)
uvicorn_run(a, p) == [app |-> a, host |-> "0.0.0.0", port |-> p]

\* a mutant of the guard: the entry point block runs on import as well
IsMainMut(n) == TRUE

\* if __name__ == "__main__"
IsMain(n) == n = "__main__"

\* a mutant of the statement order: the health route is attached before the
\* slot is overwritten
SuccessorMut(p) ==
    CASE p = "import" -> "load_dotenv"
      [] p = "load_dotenv" -> "construct"
      [] p = "construct" -> "add_health"
      [] p = "add_health" -> "assign"
      [] p = "assign" -> "bind_app"
      [] p = "bind_app" -> "main_guard"
      [] p = "read_port" -> "run"
      [] p = "run" -> "serving"

\* the statement that follows statement p when p completes normally
Successor(p) ==
    CASE p = "import" -> "load_dotenv"
      [] p = "load_dotenv" -> "construct"
      [] p = "construct" -> "assign"
      [] p = "assign" -> "add_health"
      [] p = "add_health" -> "bind_app"
      [] p = "bind_app" -> "main_guard"
      [] p = "read_port" -> "run"
      [] p = "run" -> "serving"

\* -------------------------------------------------------------------- state
VARIABLES
    pc,                \* the statement of the module body to execute next
    name,              \* __name__ of the wrapper module
    environ,           \* os.environ, restricted to PORT
    dotenv,            \* the .env file, restricted to PORT
    base_app,          \* bar_server_wrapper.base_app
    app,               \* bar_server_wrapper.app
    bar_constructor,   \* bar_server_wrapper.bar_constructor
    constructed,       \* number of BarQueryConstructor() calls made
    query_constructor, \* example_server.query_constructor
    routes,            \* route table of example_server.app
    port,              \* the local port of the entry point block
    listeners,         \* the uvicorn.run calls made so far
    error,             \* the exception that ended the module body
    steps,             \* bootstrap steps begun, in order
    served             \* requests handled so far

vars == <<pc, name, environ, dotenv, base_app, app, bar_constructor, constructed,
          query_constructor, routes, port, listeners, error, steps, served>>

program == <<pc, name, environ, dotenv, base_app, app, bar_constructor, constructed,
             query_constructor, routes, port, listeners, error, steps>>

PortValues == {PyNone} \cup {PyStr(s) : s \in StringsUpTo(MaxLen)}
DotenvValues == {PyNone, PyStr(<<"9", "0">>), PyStr(<<"a">>)}

Init ==
    /\ pc = "import"
    /\ name \in {"__main__", "bar_server_wrapper"}
    /\ environ \in [{"PORT"} -> PortValues]
    /\ dotenv \in [{"PORT"} -> DotenvValues]
    /\ base_app = "unbound"
    /\ app = "unbound"
    /\ bar_constructor = NoObject
    /\ constructed = 0
    /\ query_constructor = DefaultQC
    /\ routes \in BaseRouteTables
    /\ port = PyNone
    /\ listeners = <<>>
    /\ error = "none"
    /\ steps = <<>>
    /\ served = <<>>

\* ------------------------------------------------------------------ actions
\* lines 6-15: the imports; example_server's app is bound to base_app
Import ==
    /\ pc = "import"
    /\ base_app' = BaseAppObj
    /\ steps' = Append(steps, "obtain_app")
    /\ pc' = Successor(pc)
    /\ UNCHANGED <<name, environ, dotenv, app, bar_constructor, constructed,
                   query_constructor, routes, port, listeners, error, served>>

\* line 18
LoadDotenv ==
    /\ pc = "load_dotenv"
    /\ environ' = load_dotenv(environ, dotenv)
    /\ steps' = Append(steps, "load_env")
    /\ pc' = Successor(pc)
    /\ UNCHANGED <<name, dotenv, base_app, app, bar_constructor, constructed,
                   query_constructor, routes, port, listeners, error, served>>

\* lines 27-28, BarQueryConstructor() returns
ConstructOk ==
    /\ pc = "construct"
    /\ constructed' = constructed + 1
    /\ bar_constructor' = BarQueryConstructor(constructed + 1)
    /\ steps' = Append(steps, "construct")
    /\ pc' = Successor(pc)
    /\ UNCHANGED <<name, environ, dotenv, base_app, app, query_constructor,
                   routes, port, listeners, error, served>>

\* a mutant of the failure: the exception is swallowed and start-up goes on
ConstructRaisesMut ==
    /\ pc = "construct"
    /\ constructed' = constructed + 1
    /\ steps' = Append(steps, "construct")
    /\ error' = "ConstructionError"
    /\ pc' = Successor(pc)
    /\ UNCHANGED <<name, environ, dotenv, base_app, app, bar_constructor,
                   query_constructor, routes, port, listeners, served>>

\* lines 27-28, BarQueryConstructor() raises; nothing catches it
ConstructRaises ==
    /\ pc = "construct"
    /\ constructed' = constructed + 1
    /\ steps' = Append(steps, "construct")
    /\ error' = "ConstructionError"
    /\ pc' = "crashed"
    /\ UNCHANGED <<name, environ, dotenv, base_app, app, bar_constructor,
                   query_constructor, routes, port, listeners, served>>

\* a mutant of the assignment: a second instance is built for the slot
AssignSlotMut ==
    /\ pc = "assign"
    /\ constructed' = constructed + 1
    /\ query_constructor' = BarQueryConstructor(constructed + 1)
    /\ steps' = Append(steps, "assign_slot")
    /\ pc' = Successor(pc)
    /\ UNCHANGED <<name, environ, dotenv, base_app, app, bar_constructor,
                   routes, port, listeners, error, served>>

\* lines 32-34: example_server.query_constructor = bar_constructor (the
\* import of line 32 names the module that line 14 has already loaded)
AssignSlot ==
    /\ pc = "assign"
    /\ query_constructor' = bar_constructor
    /\ steps' = Append(steps, "assign_slot")
    /\ pc' = Successor(pc)
    /\ UNCHANGED <<name, environ, dotenv, base_app, app, bar_constructor, constructed,
                   routes, port, listeners, error, served>>

\* lines 37-38 and health_endpoint.py 3-9: add_health_endpoint(base_app)
AddHealth ==
    /\ pc = "add_health"
    /\ routes' = add_route(routes, Route("GET", "/health", "health"))
    /\ steps' = Append(steps, "attach_health")
    /\ pc' = Successor(pc)
    /\ UNCHANGED <<name, environ, dotenv, base_app, app, bar_constructor, constructed,
                   query_constructor, port, listeners, error, served>>

\* line 41: app = base_app
BindApp ==
    /\ pc = "bind_app"
    /\ app' = base_app
    /\ pc' = Successor(pc)
    /\ UNCHANGED <<name, environ, dotenv, base_app, bar_constructor, constructed,
                   query_constructor, routes, port, listeners, error, steps, served>>

\* line 44
MainGuard ==
    /\ pc = "main_guard"
    /\ pc' = IF IsMain(name) THEN "read_port" ELSE "imported"
    /\ UNCHANGED <<name, environ, dotenv, base_app, app, bar_constructor, constructed,
                   query_constructor, routes, port, listeners, error, steps, served>>

\* lines 45-48: port = int(os.getenv("PORT", 8001))
ReadPort ==
    /\ pc = "read_port"
    /\ steps' = Append(steps, "read_port")
    /\ LET r == int(os_getenv(environ, "PORT", PyIntV(DefaultPort)))
       IN  IF r.ok
           THEN /\ port' = PyIntV(r.i)
                /\ pc' = Successor(pc)
                /\ error' = error
           ELSE /\ port' = port
                /\ pc' = "crashed"
                /\ error' = "ValueError"
    /\ UNCHANGED <<name, environ, dotenv, base_app, app, bar_constructor, constructed,
                   query_constructor, routes, listeners, served>>

\* lines 51-52: uvicorn.run(app, host="0.0.0.0", port=port), which blocks
Run ==
    /\ pc = "run"
    /\ listeners' = Append(listeners, uvicorn_run(app, port.i))
    /\ steps' = Append(steps, "start_listener")
    /\ pc' = Successor(pc)
    /\ UNCHANGED <<name, environ, dotenv, base_app, app, bar_constructor, constructed,
                   query_constructor, routes, port, error, served>>

\* a mutant of the serving condition: requests arrive while the body still runs
CanServeMut(p) == p \notin {"import", "crashed"}

\* requests reach the app once uvicorn.run serves it, or once the importing
\* host has the finished module's app
CanServe(p) == p \in {"serving", "imported"}

\* one request handled by the application
Request ==
    /\ CanServe(pc)
    /\ Len(served) < MaxRequests
    /\ \E rl \in RequestLines :
          LET e == Resolve(routes, rl[1], rl[2])
          IN  served' = Append(served,
                  [method |-> rl[1], path |-> rl[2], endpoint |-> e,
                   response |-> Respond(e, query_constructor),
                   slot |-> query_constructor])
    /\ UNCHANGED program

Next ==
    \/ Import
    \/ LoadDotenv
    \/ ConstructOk
    \/ ConstructRaises
    \/ AssignSlot
    \/ AddHealth
    \/ BindApp
    \/ MainGuard
    \/ ReadPort
    \/ Run
    \/ Request

Spec == Init /\ [][Next]_vars

\* ---------------------------------------------------------------- helpers
HealthRoute == [method |-> "GET", path |-> "/health", endpoint |-> "health"]
InTable(table, r) == \E k \in 1..Len(table) : table[k] = r
Occurs(seq, x) == Cardinality({k \in 1..Len(seq) : seq[k] = x})
IsPrefix(a, b) == Len(a) <= Len(b) /\ \A k \in 1..Len(a) : a[k] = b[k]
PortString == environ["PORT"].t = "str"

\* a string no reading takes for a number: it holds no digit at all, or a
\* character that is neither digit, sign, blank nor underscore
NonNumeric(s) ==
    \/ \A k \in 1..Len(s) : s[k] \notin {"0", "1", "2", "3", "4", "5", "6", "7", "8", "9"}
    \/ \E k \in 1..Len(s) :
          s[k] \notin {"0", "1", "2", "3", "4", "5", "6", "7", "8", "9", " ", "-", "+", "_"}

\* the module body has executed the assignment of line 33
Wired ==
    \/ pc \in {"add_health", "bind_app", "main_guard", "read_port", "run",
               "serving", "imported"}
    \/ pc = "crashed" /\ error = "ValueError"

\* --------------------------------------------------------------------- C1
\* C1: every request answered by the handler that add_health_endpoint
\* registered gets exactly {"status": "healthy", "service": "bar-server"},
\* whatever was served before and whatever the application's routes and
\* active query constructor are, and handling it changes no program state.
C1_HealthIsPure ==
    /\ [](\A k \in 1..Len(served) :
             served[k].endpoint = "health"
                => served[k].response = [status |-> "healthy", service |-> "bar-server"])
    /\ [][(Len(served') = Len(served) + 1 /\ served'[Len(served')].endpoint = "health")
             => UNCHANGED program]_vars

C1_Witness ==
    /\ Len(served) = 2
    /\ served[1].endpoint = "base_query"
    /\ served[2].endpoint = "health"
    /\ served[2].response.status = "healthy"

\* --------------------------------------------------------------------- C2
\* C2: once the wiring is done, example_server.query_constructor is the very
\* instance that BarQueryConstructor() returned, and the slot is never
\* written again.
C2_SlotIsConstructedInstance ==
    /\ [](Wired => /\ query_constructor = bar_constructor
                   /\ bar_constructor # NoObject
                   /\ query_constructor # DefaultQC
                   /\ constructed = 1)
    /\ [][Wired => query_constructor' = query_constructor]_vars

C2_Witness ==
    /\ pc = "serving"
    /\ served # <<>>
    /\ query_constructor = bar_constructor
    /\ query_constructor[1] = "BarQueryConstructor"

\* --------------------------------------------------------------------- C3
\* C3: run directly with PORT holding a non-numeric string, the module body
\* ends in an uncaught ValueError at the port read, and uvicorn.run is never
\* called: no listener, no request served.
C3_NonNumericPortFailsBeforeListener ==
    /\ (/\ name = "__main__"
        /\ pc \notin {"import", "load_dotenv"}
        /\ PortString
        /\ NonNumeric(environ["PORT"].s))
          => /\ listeners = <<>>
             /\ served = <<>>
             /\ pc \notin {"run", "serving", "imported"}
             /\ Occurs(steps, "read_port") = 1 => (pc = "crashed" /\ error = "ValueError")
    /\ error = "ValueError"
          => (pc = "crashed" /\ listeners = <<>> /\ served = <<>> /\ port = PyNone)

C3_Witness ==
    /\ error = "ValueError"
    /\ pc = "crashed"
    /\ environ["PORT"] = [t |-> "str", s |-> <<"a", "9">>]
    /\ InTable(routes, HealthRoute)

\* --------------------------------------------------------------------- C4
\* C4: run directly with PORT not set when it is read, the port handed to
\* uvicorn.run is 8001.
C4_UnsetPortIs8001 ==
    (name = "__main__" /\ environ["PORT"] = [t |-> "none"])
       => /\ pc \in {"run", "serving"} => port = [t |-> "int", i |-> 8001]
          /\ \A k \in 1..Len(listeners) : listeners[k].port = 8001
          /\ error # "ValueError"

C4_Witness ==
    /\ pc = "serving"
    /\ environ["PORT"] = [t |-> "none"]
    /\ Len(listeners) = 1
    /\ listeners[1].port = 8001

\* --------------------------------------------------------------------- C5
\* C5: run directly with PORT a string that int() reads as n, uvicorn.run is
\* called exactly once, with host 0.0.0.0, port n and the application object
\* whose slot was replaced and which got the health route.
C5_ListenerGetsParsedPort ==
    /\ Len(listeners) <= 1
    /\ (pc = "serving" /\ PortString)
          => /\ Len(listeners) = 1
             /\ listeners[1].host = "0.0.0.0"
             /\ listeners[1].port = int(environ["PORT"]).i
             /\ listeners[1].app = "example_server.app"
             /\ listeners[1].app = base_app
             /\ InTable(routes, HealthRoute)
             /\ query_constructor = bar_constructor
             /\ environ["PORT"].s = <<"9", "0">> => listeners[1].port = 90
             /\ environ["PORT"].s = <<"9", "0", "0">> => listeners[1].port = 900
             /\ environ["PORT"].s = <<"0", "9">> => listeners[1].port = 9

C5_Witness ==
    /\ pc = "serving"
    /\ environ["PORT"] = [t |-> "str", s |-> <<"9", "0", "0">>]
    /\ listeners = <<[app |-> "example_server.app", host |-> "0.0.0.0", port |-> 900]>>

\* --------------------------------------------------------------------- C6
\* C6: add_health_endpoint only adds the /health route: each route of the
\* table before the call is in the table after it, and a request for its
\* method and path is answered by the same endpoint with the same response.
C6_AttachKeepsRoutes ==
    [][pc = "add_health"
         => /\ Len(routes') = Len(routes) + 1
            /\ InTable(routes', HealthRoute)
            /\ \A k \in 1..Len(routes) :
                  /\ InTable(routes', routes[k])
                  /\ Resolve(routes', routes[k].method, routes[k].path)
                        = Resolve(routes, routes[k].method, routes[k].path)
                  /\ Respond(Resolve(routes', routes[k].method, routes[k].path),
                             query_constructor')
                        = Respond(Resolve(routes, routes[k].method, routes[k].path),
                                  query_constructor)]_vars

C6_Witness ==
    /\ InTable(routes, HealthRoute)
    /\ \E k \in 1..Len(served) :
          /\ served[k].path = "/health"
          /\ served[k].endpoint = "base_health"

\* --------------------------------------------------------------------- C7
\* C7: imported as a library, the module ends with app bound to the
\* configured application (slot replaced, health route attached) and neither
\* reads the port nor calls uvicorn.run; a listener exists only when the
\* module is the entry point.
C7_ImportStartsNoListener ==
    /\ name # "__main__"
          => /\ listeners = <<>>
             /\ port = [t |-> "none"]
             /\ Occurs(steps, "read_port") = 0
             /\ pc \notin {"read_port", "run", "serving"}
             /\ error # "ValueError"
    /\ pc = "imported"
          => /\ app = "example_server.app"
             /\ query_constructor = bar_constructor
             /\ bar_constructor # NoObject
             /\ InTable(routes, HealthRoute)
    /\ listeners # <<>> => name = "__main__"

C7_Witness ==
    /\ pc = "imported"
    /\ name = "bar_server_wrapper"
    /\ served # <<>>
    /\ environ["PORT"] = [t |-> "str", s |-> <<"a">>]

\* --------------------------------------------------------------------- C8
\* C8: when BarQueryConstructor() raises, the module body ends there: the
\* slot keeps the default, no health route is attached, app is not bound,
\* the port is not read, uvicorn.run is not called, the constructor is not
\* called again, and no further step is taken.
C8_ConstructionFailureIsFatal ==
    /\ [](error = "ConstructionError"
            => /\ pc = "crashed"
               /\ query_constructor = DefaultQC
               /\ bar_constructor = NoObject
               /\ ~InTable(routes, HealthRoute)
               /\ app = "unbound"
               /\ port = [t |-> "none"]
               /\ listeners = <<>>
               /\ served = <<>>
               /\ constructed = 1
               /\ steps = <<"obtain_app", "load_env", "construct">>)
    /\ [][error = "ConstructionError" => UNCHANGED vars]_vars

C8_Witness ==
    /\ error = "ConstructionError"
    /\ pc = "crashed"
    /\ constructed = 1

\* --------------------------------------------------------------------- C9
\* C9 as stated: the steps begin in the order load environment, construct,
\* obtain the application and overwrite the slot, attach health, read port,
\* start listener.
C9_SpecOrder ==
    IsPrefix(steps, <<"load_env", "construct", "obtain_app", "assign_slot",
                      "attach_health", "read_port", "start_listener">>)

\* C9 as amended: the application is obtained first, by the import at the
\* top of the module; then the steps begin, each once, in the order load
\* environment, construct, overwrite the slot, attach health, read port,
\* start listener; an import stops after attach health.
C9_CodeOrder ==
    /\ IsPrefix(steps, <<"obtain_app", "load_env", "construct", "assign_slot",
                         "attach_health", "read_port", "start_listener">>)
    /\ pc = "serving" => Len(steps) = 7
    /\ pc = "imported" => Len(steps) = 5
    /\ InTable(routes, HealthRoute) => query_constructor = bar_constructor
    /\ base_app = "unbound" <=> steps = <<>>

C9_Witness ==
    /\ pc = "serving"
    /\ steps = <<"obtain_app", "load_env", "construct", "assign_slot",
                 "attach_health", "read_port", "start_listener">>

\* -------------------------------------------------------------------- C10
\* C10: the slot is written once, before any request: every request is
\* handled with the constructed instance in the slot, never the default, and
\* the slot does not change once a request has been served.
C10_AssignedBeforeAnyRequest ==
    /\ [](/\ \A k \in 1..Len(served) :
                /\ served[k].slot # DefaultQC
                /\ served[k].slot = bar_constructor
                /\ served[k].slot = query_constructor
          /\ Occurs(steps, "assign_slot") <= 1
          /\ served # <<>> => Occurs(steps, "assign_slot") = 1)
    /\ [][query_constructor' # query_constructor => (served = <<>> /\ served' = <<>>)]_vars

C10_Witness ==
    /\ Len(served) = MaxRequests
    /\ \E k \in 1..Len(served) :
          /\ served[k].endpoint = "base_query"
          /\ served[k].response.service = "BarQueryConstructor"
          /\ served[k].slot = bar_constructor

====
